---- MODULE Spec2Model ----
(***************************************************************************)
(* Model of pv_cobra_redux: the Cobra handle wrapper (src/src/lib.rs) and  *)
(* the microphone pipeline of the example (src/examples/mic.rs).           *)
(*                                                                         *)
(* The main thread runs the setup of main() step by step; the capture      *)
(* driver invokes the stream callback (add_samples) in the slots of        *)
(* Threads, possibly while an earlier invocation still runs.  The native   *)
(* engine, the resampler and the audio host are external: every result     *)
(* they can hand back is a nondeterministic choice.                        *)
(***************************************************************************)
EXTENDS Integers, Sequences, FiniteSets, TLC

(* ---- bounds ---- *)
NumThreads == 2      \* callback invocations that may be in flight at once
MaxBlock == 2        \* frames in one resampled block
MaxDeliver == 4      \* hardware buffers delivered in one run
MaxLiveDeliver == 6  \* hardware buffers delivered in one error-free run
MaxMixFrames == 2    \* frames in a block handed to the mixer on its own

Threads == 1..NumThreads

(* ---- engine-declared constants (native queries) ---- *)
sample_rate == 3
frame_length == 2

(* f32 samples are written as integers in units of 1/Unit *)
Unit == 2
I16Max == 32767
I16Min == -32768
(* sample values in the pipeline: no branch of add_samples looks at a      *)
(* value, so every resampled sample is full scale there; the mixer's       *)
(* arithmetic is exercised on MixFloats                                    *)
StreamFloats == {Unit}
MixFloats == {-Unit, 0, Unit}

(* ---- native status codes and their mapping ---- *)
Statuses == {"SUCCESS", "OUT_OF_MEMORY", "IO_ERROR", "INVALID_ARGUMENT",
             "STOP_ITERATION", "KEY_ERROR", "INVALID_STATE", "RUNTIME_ERROR",
             "ACTIVATION_ERROR", "ACTIVATION_LIMIT_REACHED",
             "ACTIVATION_THROTTLED", "ACTIVATION_REFUSED", "OTHER"}

ErrorFrom(status) ==
    CASE status = "OUT_OF_MEMORY" -> "OutOfMemory"
      [] status = "IO_ERROR" -> "IoError"
      [] status = "INVALID_ARGUMENT" -> "InvalidArgument"
      [] status = "STOP_ITERATION" -> "StopIteration"
      [] status = "KEY_ERROR" -> "KeyError"
      [] status = "INVALID_STATE" -> "InvalidState"
      [] status = "RUNTIME_ERROR" -> "RuntimeError"
      [] status = "ACTIVATION_ERROR" -> "ActivationError"
      [] status = "ACTIVATION_LIMIT_REACHED" -> "ActivationLimitReached"
      [] status = "ACTIVATION_THROTTLED" -> "ActivationThrottled"
      [] status = "ACTIVATION_REFUSED" -> "ActivationRefused"
      [] OTHER -> "UnknownError"

(* statuses the engine hands back in the model: success, one mapped error  *)
(* of each class used by the pipeline, and one unmapped code               *)
InitStatuses == {"SUCCESS", "ACTIVATION_ERROR", "INVALID_ARGUMENT", "OTHER"}
ProcessStatuses == {"SUCCESS", "RUNTIME_ERROR"}

(* credentials found in the environment: a well-formed key, and a key with *)
(* an embedded NUL byte                                                    *)
Keys == {"key", "key_with_nul"}
HasNul(key) == key = "key_with_nul"

(* a conversion that lets the NUL byte through *)
CStringNew_Unchecked(key) == "Ok"

(* CString::new(access_key): fails exactly when the bytes contain a NUL *)
CStringNew(key) == IF HasNul(key) THEN "NulError" ELSE "Ok"

(* ---- channel mixer ---- *)
Abs(x) == IF x < 0 THEN -x ELSE x

(* a cast without round(): the fraction is cut off *)
RoundHalfAway_Truncate(num, den) ==
    IF num < 0 THEN -((-num) \div den) ELSE num \div den

(* f32::round of num/den (den > 0): half-way cases away from zero *)
RoundHalfAway(num, den) ==
    LET q == (2 * Abs(num) + den) \div (2 * den)
    IN IF num < 0 THEN -q ELSE q

(* `as i16` on a float saturates at the i16 bounds *)
SaturateI16(x) == IF x > I16Max THEN I16Max ELSE IF x < I16Min THEN I16Min ELSE x

(* (s * i16::MAX as f32).round() as i16, with s = num/den *)
Quantize(num, den) == SaturateI16(RoundHalfAway(num * I16Max, den))

(* chunks(2): number of chunks of a slice of length n *)
NumChunks(n) == (n + 1) \div 2

(* chunk[1] panics when the last chunk has a single element *)
MixPanics(ch, block) == ch # 1 /\ Len(block) % 2 = 1

MixMono(ch, block) ==
    IF ch = 1
    THEN [k \in 1..Len(block) |-> Quantize(block[k], Unit)]
    ELSE [k \in 1..NumChunks(Len(block)) |->
             Quantize(block[2 * k - 1] + block[2 * k], 2 * Unit)]

(* blocks the resampler can hand back: any number of frames up to MaxBlock, *)
(* each frame holding one sample per channel                                *)
ResampledBlocks(ch) ==
    UNION {[1..(n * ch) -> StreamFloats] : n \in 0..MaxBlock}

(* a bar fed the raw confidence, without the scaling to percent *)
Position_Unscaled(c) == c \div Unit

(* (confidence * 100.0) as u64, confidence written in units of 1/Unit *)
Confidences == 0..Unit
Position(c) == (c * 100) \div Unit

VARIABLES
    mainPc,        \* position of main()
    exitStatus,    \* how the process ended: "none", "Ok", "Err", "killed", "abort"
    exitError,     \* the error main() returned with
    channels,      \* device.config.channels()
    formatOk,      \* device.config.sample_format() is one of I8/I16/I32/F32
    accessKey,     \* PICOVOICE_ACCESS_KEY
    threshold,     \* main's local `frame_length`
    cobra,         \* the native handle: "none", "live", "released"
    initCalls,     \* calls of pv_cobra_init
    deleteCalls,   \* calls of pv_cobra_delete
    stream,        \* "none", "built", "playing", "dead", "dropped"
    holder,        \* thread holding the Mutex guard, 0 when free
    poisoned,      \* the Mutex poison flag
    resamplerCalls,\* calls of resampler.process (the resampler's state)
    buf,           \* AudioInputProcessor.buf: Option<Vec<i16>>
    position,      \* progress_bar position (the reported confidence)
    confidence,    \* value of the last Ok(confidence) of Cobra::process
    pc,            \* position of each callback invocation
    result,        \* outcome of the last finished invocation of each slot
    diag,          \* the invocation printed the falling-behind diagnostic
    frame,         \* slice handed to Cobra::process by the invocation
    ownSteps,      \* steps the invocation took since it was delivered
    sawHeld,       \* the invocation found the guard held at try_lock
    lateCall,      \* the invocation was delivered after an engine failure
    delivered,     \* buffers delivered so far
    processCalls,  \* calls of pv_cobra_process
    engineFailed,  \* some pv_cobra_process returned non-zero
    afterRelease,  \* pv_cobra_process was entered with the handle not live
    mixPc,         \* the mixer on its own: "off", "input", "done", "panicked"
    mixCh,         \* its channel count
    mixIn,         \* the resampled block it is given
    mixOut         \* the mono buffer it produced

vars == <<mainPc, exitStatus, exitError, channels, formatOk, accessKey,
          threshold, cobra, initCalls, deleteCalls, stream, holder, poisoned,
          resamplerCalls, buf, position, confidence, pc, result, diag, frame,
          ownSteps, sawHeld, lateCall, delivered, processCalls, engineFailed,
          afterRelease, mixPc, mixCh, mixIn, mixOut>>

mainVars == <<mainPc, exitStatus, exitError, channels, formatOk, accessKey,
              threshold>>
handleVars == <<cobra, initCalls, deleteCalls>>
lockVars == <<holder, poisoned>>
sharedVars == <<resamplerCalls, buf, position, confidence, processCalls,
                engineFailed, afterRelease>>
callVars == <<pc, result, diag, frame, ownSteps, sawHeld, lateCall>>
mixVars == <<mixPc, mixCh, mixIn, mixOut>>

None == [some |-> FALSE, data |-> <<>>]
Some(v) == [some |-> TRUE, data |-> v]

PipelineInit ==
    /\ mainPc = "device"
    /\ exitStatus = "none"
    /\ exitError = "none"
    /\ channels = 0
    /\ formatOk = FALSE
    /\ accessKey = "unset"
    /\ threshold = 0
    /\ cobra = "none"
    /\ initCalls = 0
    /\ deleteCalls = 0
    /\ stream = "none"
    /\ holder = 0
    /\ poisoned = FALSE
    /\ resamplerCalls = 0
    /\ buf = None
    /\ position = 0
    /\ confidence = 0
    /\ pc = [t \in Threads |-> "idle"]
    /\ result = [t \in Threads |-> "none"]
    /\ diag = [t \in Threads |-> FALSE]
    /\ frame = [t \in Threads |-> <<>>]
    /\ ownSteps = [t \in Threads |-> 0]
    /\ sawHeld = [t \in Threads |-> FALSE]
    /\ lateCall = [t \in Threads |-> FALSE]
    /\ delivered = 0
    /\ processCalls = 0
    /\ engineFailed = FALSE
    /\ afterRelease = FALSE

Init ==
    /\ PipelineInit
    /\ mixPc = "off"
    /\ mixCh = 1
    /\ mixIn = <<>>
    /\ mixOut = <<>>


(* ---- main(): setup ---- *)

(* main returns Err(e): the process exits with a non-zero status *)
ExitErr(e) ==
    /\ mainPc' = "exited"
    /\ exitStatus' = "Err"
    /\ exitError' = e

(* Drop for Cobra: pv_cobra_delete on the handle *)
CobraDrop ==
    /\ cobra' = "released"
    /\ deleteCalls' = deleteCalls + 1
    /\ UNCHANGED initCalls

(* no invocation of the callback is running: the closure that owns the     *)
(* Arc<Mutex<AudioInputProcessor>> can only be dropped then                *)
CallbackQuiescent == \A t \in Threads : pc[t] = "idle"

(* a stream that already runs when build_input_stream returns *)
CanDeliver_OnBuilt(t) ==
    /\ stream \in {"built", "playing"}
    /\ exitStatus = "none"
    /\ pc[t] = "idle"
    /\ delivered < MaxDeliver

(* a driver that keeps calling after the stream was dropped *)
CanDeliver_AfterDrop(t) ==
    /\ stream \in {"playing", "dropped"}
    /\ pc[t] = "idle"
    /\ delivered < MaxDeliver

(* the driver may invoke the callback: the stream plays and the process runs *)
CanDeliver(t) ==
    /\ stream = "playing"
    /\ exitStatus = "none"
    /\ pc[t] = "idle"
    /\ delivered < MaxDeliver

(* Device::new_from_device_name / new_from_default_device, then            *)
(* device?.context("mic device not found")?                                *)
FindDevice ==
    /\ mainPc = "device"
    /\ \E found \in BOOLEAN, ch \in 1..3, fmt \in BOOLEAN :
         IF found
         THEN /\ channels' = ch
              /\ formatOk' = fmt
              /\ mainPc' = "env"
              /\ UNCHANGED <<exitStatus, exitError>>
         ELSE /\ ExitErr("mic device not found")
              /\ UNCHANGED <<channels, formatOk>>
    /\ UNCHANGED <<accessKey, threshold, handleVars, stream, lockVars,
                   sharedVars, callVars, delivered>>
    /\ UNCHANGED mixVars

(* env::var("PICOVOICE_ACCESS_KEY"), channels, frame_length *)
ReadEnv ==
    /\ mainPc = "env"
    /\ \E present \in BOOLEAN, key \in Keys :
         IF present
         THEN /\ accessKey' = key
              /\ threshold' = sample_rate
              /\ mainPc' = "new_proc"
              /\ UNCHANGED <<exitStatus, exitError>>
         ELSE /\ ExitErr("missing environment variable")
              /\ UNCHANGED <<accessKey, threshold>>
    /\ UNCHANGED <<channels, formatOk, handleVars, stream, lockVars,
                   sharedVars, callVars, delivered>>
    /\ UNCHANGED mixVars

(* Cobra::new(access_key) with the native pv_cobra_init handing back       *)
(* `status` and a null or non-null handle: the error, or "Ok"              *)
CobraNewCStringErr == "NullValue"

CobraNew(key, status, isNull) ==
    IF CStringNew(key) # "Ok" THEN CobraNewCStringErr
    ELSE IF status # "SUCCESS" THEN ErrorFrom(status)
    ELSE IF isNull THEN "NullValue"
    ELSE "Ok"

(* AudioInputProcessor::new: the resampler first, then the buffer, then    *)
(* the engine handle; Arc::new(Mutex::new(..)) on success                  *)
NewProcessor ==
    /\ mainPc = "new_proc"
    /\ \E resamplerOk \in BOOLEAN, status \in InitStatuses, isNull \in BOOLEAN :
         IF ~resamplerOk
         THEN /\ ExitErr("resampler")
              /\ UNCHANGED <<handleVars, buf>>
         ELSE LET r == CobraNew(accessKey, status, isNull)
              IN /\ initCalls' = IF CStringNew(accessKey) = "Ok"
                                 THEN initCalls + 1 ELSE initCalls
                 /\ deleteCalls' = deleteCalls
                 /\ IF r = "Ok"
                    THEN /\ cobra' = "live"
                         /\ buf' = Some(<<>>)
                         /\ mainPc' = "build"
                         /\ UNCHANGED <<exitStatus, exitError>>
                    ELSE /\ ExitErr(r)
                         /\ UNCHANGED <<cobra, buf>>
    /\ UNCHANGED <<channels, formatOk, accessKey, threshold, stream, lockVars,
                   resamplerCalls, position, confidence, processCalls,
                   engineFailed,
                   afterRelease, callVars, delivered>>
    /\ UNCHANGED mixVars

(* match device.config.sample_format(): build_input_stream(..)? or bail!;  *)
(* on either failure the closure owning the processor is dropped           *)
BuildStream ==
    /\ mainPc = "build"
    /\ \E built \in BOOLEAN :
         IF formatOk /\ built
         THEN /\ stream' = "built"
              /\ mainPc' = "play"
              /\ UNCHANGED <<exitStatus, exitError, handleVars>>
         ELSE /\ CallbackQuiescent
              /\ ExitErr(IF formatOk THEN "build stream" ELSE "unsupported format")
              /\ CobraDrop
              /\ UNCHANGED stream
    /\ UNCHANGED <<channels, formatOk, accessKey, threshold, lockVars,
                   sharedVars, callVars, delivered>>
    /\ UNCHANGED mixVars

(* stream.play()?: on failure main returns and the stream is dropped, and  *)
(* with it the callback and the processor it owns                          *)
Play ==
    /\ mainPc = "play"
    /\ \E ok \in BOOLEAN :
         IF ok
         THEN /\ stream' = "playing"
              /\ mainPc' = "loop"
              /\ UNCHANGED <<exitStatus, exitError, handleVars>>
         ELSE /\ CallbackQuiescent
              /\ ExitErr("play stream")
              /\ stream' = "dropped"
              /\ CobraDrop
    /\ UNCHANGED <<channels, formatOk, accessKey, threshold, lockVars,
                   sharedVars, callVars, delivered>>
    /\ UNCHANGED mixVars

(* loop { thread::sleep(..) } never returns: the run ends only when the    *)
(* process is terminated from outside, and then no destructor runs         *)
Terminate ==
    /\ mainPc = "loop"
    /\ exitStatus = "none"
    /\ mainPc' = "exited"
    /\ exitStatus' = "killed"
    /\ UNCHANGED <<exitError, channels, formatOk, accessKey, threshold,
                   handleVars, stream, lockVars, sharedVars, callVars,
                   delivered>>
    /\ UNCHANGED mixVars


(* ---- the stream callback: add_samples ---- *)

Running == exitStatus = "none"

Step(t) == ownSteps' = [ownSteps EXCEPT ![t] = @ + 1]

(* the data callback is invoked with one hardware buffer *)
Deliver(t) ==
    /\ CanDeliver(t)
    /\ pc' = [pc EXCEPT ![t] = "try_lock"]
    /\ result' = [result EXCEPT ![t] = "none"]
    /\ diag' = [diag EXCEPT ![t] = FALSE]
    /\ sawHeld' = [sawHeld EXCEPT ![t] = FALSE]
    /\ lateCall' = [lateCall EXCEPT ![t] = engineFailed]
    /\ ownSteps' = [ownSteps EXCEPT ![t] = 0]
    /\ delivered' = delivered + 1
    /\ UNCHANGED <<mainVars, handleVars, stream, lockVars, sharedVars, frame>>
    /\ UNCHANGED mixVars

(* a blocking lock(): the caller waits while the guard is held *)
TryLockBranch_Blocking(h, p) ==
    IF h # 0 THEN "try_lock"
    ELSE IF p THEN "poisoned"
    ELSE "locked"

(* a guard that excludes nobody *)
TryLockBranch_NoExclusion(h, p) ==
    IF p THEN "poisoned" ELSE "locked"

(* a held guard is respected only while the holder is not scoring *)
TryLockBranch_Steal(h, p) ==
    IF h # 0 /\ pc[h] # "process" THEN "would_block"
    ELSE IF p THEN "poisoned"
    ELSE "locked"

(* the poison flag is ignored, as with into_inner() on the poison error *)
TryLockBranch_IgnorePoison(h, p) ==
    IF h # 0 THEN "would_block" ELSE "locked"

(* Mutex::try_lock: the branch taken, from the guard's state *)
TryLockBranch(h, p) ==
    IF h # 0 THEN "would_block"
    ELSE IF p THEN "poisoned"
    ELSE "locked"

(* match proc.try_lock() *)
TryLock(t) ==
    /\ Running
    /\ pc[t] = "try_lock"
    /\ LET b == TryLockBranch(holder, poisoned)
       IN /\ pc' = [pc EXCEPT ![t] = b]
          /\ holder' = IF b \in {"locked", "poisoned"} THEN t ELSE holder
          /\ sawHeld' = [sawHeld EXCEPT ![t] = (holder # 0)]
    /\ Step(t)
    /\ UNCHANGED <<mainVars, handleVars, stream, poisoned, sharedVars, result,
                   diag, frame, lateCall, delivered>>
    /\ UNCHANGED mixVars

(* scoring whatever the accumulator holds *)
FrameReady_Always(len) == TRUE

(* a guard that is leaked instead of dropped: the Mutex stays locked *)
GuardAfterDrop_Leaked(h) == h

(* the MutexGuard goes out of scope when add_samples returns or unwinds:   *)
(* the Mutex is free again                                                 *)
GuardAfterDrop(h) == 0

(* the accumulator is full enough to score: buf.len() >= frame_length *)
FrameReady(len) == len >= threshold

(* the slice handed to Cobra::process, from the accumulator's contents *)
FrameOf(data) == data

(* Ok(guard): resample, mix, append, and take the buffer when it is full *)
Ingest(t) ==
    /\ Running
    /\ pc[t] = "locked"
    /\ holder = t
    /\ resamplerCalls' = resamplerCalls + 1
    /\ \E rOk \in BOOLEAN, block \in ResampledBlocks(channels) :
         IF ~rOk
         THEN \* guard.resampler.process(samples)? returns the error
              /\ pc' = [pc EXCEPT ![t] = "err_resampler"]
              /\ holder' = GuardAfterDrop(holder)
              /\ UNCHANGED <<poisoned, buf, frame, processCalls, afterRelease>>
         ELSE IF MixPanics(channels, block) \/ ~buf.some
         THEN \* chunk[1] out of bounds, or guard.buf.as_mut().unwrap() on None
              /\ pc' = [pc EXCEPT ![t] = "panicked"]
              /\ holder' = GuardAfterDrop(holder)
              /\ poisoned' = TRUE
              /\ UNCHANGED <<buf, frame, processCalls, afterRelease>>
         ELSE LET data == buf.data \o MixMono(channels, block)
              IN IF FrameReady(Len(data))
                 THEN \* guard.buf.take(), guard.cobra.process(&buf) entered
                      /\ buf' = None
                      /\ frame' = [frame EXCEPT ![t] = FrameOf(data)]
                      /\ pc' = [pc EXCEPT ![t] = "process"]
                      /\ processCalls' = processCalls + 1
                      /\ afterRelease' = (afterRelease \/ cobra # "live")
                      /\ UNCHANGED <<holder, poisoned>>
                 ELSE /\ buf' = Some(data)
                      /\ pc' = [pc EXCEPT ![t] = "ret_ok"]
                      /\ holder' = GuardAfterDrop(holder)
                      /\ UNCHANGED <<poisoned, frame, processCalls, afterRelease>>
    /\ Step(t)
    /\ UNCHANGED <<mainVars, handleVars, stream, position, confidence,
                   engineFailed,
                   result, diag, sawHeld, lateCall, delivered>>
    /\ UNCHANGED mixVars

(* one frame is drained and the remainder kept for the next frame *)
AfterScore_KeepExcess(data) ==
    Some(SubSeq(data, frame_length + 1, Len(data)))

(* the accumulator after a successful scoring: buf.clear(), put back *)
AfterScore(data) == Some(<<>>)

(* the buffer is put back before the error is returned *)
AfterEngineError_PutBack == Some(<<>>)

(* the accumulator after a failed scoring: taken and never put back *)
AfterEngineError == None

(* pv_cobra_process returns: Cobra::process maps the status; on success    *)
(* the buffer is cleared and put back and the progress bar is set          *)
ProcessReturn(t) ==
    /\ Running
    /\ pc[t] = "process"
    /\ holder = t
    /\ \E status \in ProcessStatuses, c \in Confidences :
         IF status # "SUCCESS"
         THEN \* `?` returns Err(Error::from(status)); buf stays None
              /\ engineFailed' = TRUE
              /\ pc' = [pc EXCEPT ![t] = "err_engine"]
              /\ buf' = AfterEngineError
              /\ UNCHANGED <<position, confidence>>
         ELSE /\ buf' = AfterScore(frame[t])
              /\ confidence' = c
              /\ position' = Position(c)
              /\ pc' = [pc EXCEPT ![t] = "ret_ok"]
              /\ UNCHANGED engineFailed
    /\ holder' = GuardAfterDrop(holder)
    /\ frame' = [frame EXCEPT ![t] = <<>>]
    /\ Step(t)
    /\ UNCHANGED <<mainVars, handleVars, stream, poisoned, resamplerCalls,
                   processCalls, afterRelease, result, diag, sawHeld,
                   lateCall, delivered>>
    /\ UNCHANGED mixVars

(* Err(TryLockError::Poisoned(err)): bail!; the guard carried by err is    *)
(* dropped on the way out                                                  *)
Bail(t) ==
    /\ Running
    /\ pc[t] = "poisoned"
    /\ holder = t
    /\ pc' = [pc EXCEPT ![t] = "err_poisoned"]
    /\ holder' = GuardAfterDrop(holder)
    /\ Step(t)
    /\ UNCHANGED <<mainVars, handleVars, stream, poisoned, sharedVars, result,
                   diag, frame, sawHeld, lateCall, delivered>>
    /\ UNCHANGED mixVars

(* what add_samples returns on the WouldBlock branch *)
WouldBlockResult == "Ok"

(* Ok(()) reaches the callback; the WouldBlock branch prints its          *)
(* diagnostic first                                                        *)
ReturnOk(t) ==
    /\ Running
    /\ pc[t] \in {"ret_ok", "would_block"}
    /\ result' = [result EXCEPT ![t] =
                     IF pc[t] = "would_block" THEN WouldBlockResult ELSE "Ok"]
    /\ diag' = [diag EXCEPT ![t] = (pc[t] = "would_block")]
    /\ pc' = [pc EXCEPT ![t] = "idle"]
    /\ Step(t)
    /\ UNCHANGED <<mainVars, handleVars, stream, lockVars, sharedVars, frame,
                   sawHeld, lateCall, delivered>>
    /\ UNCHANGED mixVars

(* what becomes of the stream and the process when the callback panics:    *)
(* the host keeps calling, the callback thread is gone, or the process     *)
(* aborts                                                                  *)
PanicOutcomes == {"continue", "stream_dead", "abort"}

(* add_samples returned Err: from the resampler, the engine, or bail! *)
ErrPcs == {"err_resampler", "err_engine", "err_poisoned"}

(* .expect("failed to add samples") on an Err, or a panic inside           *)
(* add_samples, unwinds out of the callback                                *)
CallbackPanic(t) ==
    /\ Running
    /\ pc[t] \in ErrPcs \cup {"panicked"}
    /\ result' = [result EXCEPT ![t] = pc[t]]
    /\ pc' = [pc EXCEPT ![t] = "idle"]
    /\ \E o \in PanicOutcomes :
         /\ stream' = IF o = "stream_dead" THEN "dead" ELSE stream
         /\ exitStatus' = IF o = "abort" THEN "abort" ELSE exitStatus
         /\ mainPc' = IF o = "abort" THEN "exited" ELSE mainPc
    /\ Step(t)
    /\ UNCHANGED <<exitError, channels, formatOk, accessKey, threshold,
                   handleVars, lockVars, sharedVars, diag, frame, sawHeld,
                   lateCall, delivered>>
    /\ UNCHANGED mixVars

Callback(t) ==
    \/ Deliver(t)
    \/ TryLock(t)
    \/ Ingest(t)
    \/ ProcessReturn(t)
    \/ Bail(t)
    \/ ReturnOk(t)
    \/ CallbackPanic(t)

Next ==
    \/ FindDevice
    \/ ReadEnv
    \/ NewProcessor
    \/ BuildStream
    \/ Play
    \/ Terminate
    \/ \E t \in Threads : Callback(t)

Spec == Init /\ [][Next]_vars

(* ---- a driver that never overlaps two invocations of the callback ---- *)

SeqDeliver(t) == CallbackQuiescent /\ Deliver(t)

SeqCallback(t) ==
    \/ SeqDeliver(t)
    \/ TryLock(t)
    \/ Ingest(t)
    \/ ProcessReturn(t)
    \/ Bail(t)
    \/ ReturnOk(t)
    \/ CallbackPanic(t)

SeqNext ==
    \/ FindDevice
    \/ ReadEnv
    \/ NewProcessor
    \/ BuildStream
    \/ Play
    \/ Terminate
    \/ \E t \in Threads : SeqCallback(t)

SeqSpec == Init /\ [][SeqNext]_vars

(* ---- an error-free run: the driver keeps delivering, one invocation at  *)
(* a time, every block yields at least one mono sample, and neither the    *)
(* resampler, the mixer nor the engine fails                               *)

LiveDeliver(t) ==
    /\ stream = "playing"
    /\ exitStatus = "none"
    /\ CallbackQuiescent
    /\ delivered < MaxLiveDeliver
    /\ pc' = [pc EXCEPT ![t] = "try_lock"]
    /\ result' = [result EXCEPT ![t] = "none"]
    /\ diag' = [diag EXCEPT ![t] = FALSE]
    /\ sawHeld' = [sawHeld EXCEPT ![t] = FALSE]
    /\ lateCall' = [lateCall EXCEPT ![t] = engineFailed]
    /\ ownSteps' = [ownSteps EXCEPT ![t] = 0]
    /\ delivered' = delivered + 1
    /\ UNCHANGED <<mainVars, handleVars, stream, lockVars, sharedVars, frame>>
    /\ UNCHANGED mixVars

LiveIngest(t) ==
    /\ Ingest(t)
    /\ \/ pc'[t] = "ret_ok" /\ Len(buf'.data) > Len(buf.data)
       \/ pc'[t] = "process" /\ Len(frame'[t]) > Len(buf.data)

LiveProcessReturn(t) == ProcessReturn(t) /\ pc'[t] = "ret_ok"

LiveCallback(t) ==
    \/ LiveDeliver(t)
    \/ TryLock(t)
    \/ LiveIngest(t)
    \/ LiveProcessReturn(t)
    \/ ReturnOk(t)

LiveNext ==
    \/ FindDevice
    \/ ReadEnv
    \/ NewProcessor
    \/ BuildStream
    \/ Play
    \/ \E t \in Threads : LiveCallback(t)

LiveSpec ==
    Init /\ [][LiveNext]_vars /\ WF_vars(\E t \in Threads : LiveCallback(t))

(* ---- the channel mixer on its own ---- *)

(* blocks of whole frames, as the resampler hands them back *)
MixBlocks(ch) ==
    UNION {[1..(n * ch) -> MixFloats] : n \in 0..MaxMixFrames}

MixInit ==
    /\ PipelineInit
    /\ mixPc = "input"
    /\ mixCh \in 1..3
    /\ mixIn \in MixBlocks(mixCh)
    /\ mixOut = <<>>

pipelineVars == <<mainVars, handleVars, stream, lockVars, sharedVars,
                  callVars, delivered>>

(* the if/else of add_samples that builds resampled_mono *)
MixApply ==
    /\ mixPc = "input"
    /\ ~MixPanics(mixCh, mixIn)
    /\ mixOut' = MixMono(mixCh, mixIn)
    /\ mixPc' = "done"
    /\ UNCHANGED <<mixCh, mixIn, pipelineVars>>

(* chunk[1] on a last chunk of one sample *)
MixPanic ==
    /\ mixPc = "input"
    /\ MixPanics(mixCh, mixIn)
    /\ mixPc' = "panicked"
    /\ UNCHANGED <<mixCh, mixIn, mixOut, pipelineVars>>

MixNext == MixApply \/ MixPanic

MixSpec == MixInit /\ [][MixNext]_vars

TypeOK ==
    /\ mainPc \in {"device", "env", "new_proc", "build", "play", "loop", "exited"}
    /\ cobra \in {"none", "live", "released"}
    /\ holder \in Threads \cup {0}
    /\ buf.some \in BOOLEAN
    /\ \A t \in Threads : pc[t] \in {"idle", "try_lock", "would_block", "poisoned",
                                     "locked", "process", "ret_ok", "panicked"}
                                    \cup ErrPcs


(* ---- properties ---- *)

pipelineState == <<resamplerCalls, buf, processCalls, position>>

(* C1: every slice handed to the engine's process holds exactly            *)
(* frame_length() samples.                                                 *)
C1_ExactFrame ==
    \A t \in Threads : pc[t] = "process" => Len(frame[t]) = frame_length

(* C2: whenever the guard is free the accumulator holds fewer than         *)
(* frame_length() samples: a buffer that reached frame_length() was scored *)
(* and cleared in the call that filled it.                                 *)
C2_FreeGuardBelowFrame ==
    (holder = 0 /\ buf.some) => Len(buf.data) < frame_length

(* C3: a call that finds the guard held never waits: after its try_lock it *)
(* is on the WouldBlock branch, and its second step returns Ok with the    *)
(* diagnostic printed, wherever the holder is.                             *)
C3_DroppedCallReturns ==
    \A t \in Threads :
        sawHeld[t] =>
            /\ pc[t] \in {"would_block", "idle"}
            /\ ownSteps[t] = (IF pc[t] = "would_block" THEN 1 ELSE 2)
            /\ pc[t] = "idle" => (result[t] = "Ok" /\ diag[t])

C3_Witness ==
    \E t, u \in Threads :
        /\ sawHeld[t] /\ pc[t] = "idle" /\ result[t] = "Ok"
        /\ pc[u] = "process" /\ holder = u

(* C4: at most one invocation is inside the engine's process at any        *)
(* moment, and whoever is inside the critical section holds the guard.     *)
C4_NoOverlap ==
    /\ Cardinality({t \in Threads : pc[t] = "process"}) <= 1
    /\ \A t \in Threads :
           pc[t] \in {"locked", "process", "poisoned"} => holder = t

C4_Witness ==
    \E t, u \in Threads : pc[t] = "process" /\ pc[u] = "would_block"

(* C5: a step of a call that was dropped because the guard was held leaves *)
(* resampler, accumulator, engine call count and reported confidence       *)
(* unchanged, and nothing changes them while the guard is free, so the     *)
(* next holder finds the accumulator as the last holder left it.           *)
C5_DroppedCallInert ==
    [][/\ \A t \in Threads :
              (sawHeld'[t] /\ ownSteps'[t] # ownSteps[t])
                  => UNCHANGED pipelineState
       /\ (holder = 0 /\ stream # "none") => UNCHANGED pipelineState]_vars

C5_Witness ==
    \E t, u \in Threads :
        /\ sawHeld[t] /\ pc[t] = "idle" /\ result[t] = "Ok"
        /\ pc[u] = "locked" /\ buf.some /\ Len(buf.data) > 0

(* C6 as stated: after a failed scoring the failing call stores no         *)
(* confidence, process is never invoked again, and every ingestion call    *)
(* delivered later fails.                                                  *)
C6_EveryLaterCallFails ==
    /\ [][engineFailed' => (engineFailed \/ position' = position)]_vars
    /\ [][engineFailed => processCalls' = processCalls]_vars
    /\ [](\A t \in Threads :
              (lateCall[t] /\ result[t] # "none") => result[t] # "Ok")

(* C6 amended: after a failed scoring the failing call returns Err with no *)
(* confidence stored, process is never invoked again and no confidence is  *)
(* reported again, and every later call fails unless it found the guard    *)
(* held, in which case it is dropped with Ok.                              *)
C6_NoRetryAfterEngineError ==
    /\ [][\A t \in Threads :
              (pc[t] = "process" /\ pc'[t] = "err_engine")
                  => position' = position]_vars
    /\ [][\A t \in Threads :
              (pc[t] = "err_engine" /\ pc'[t] # pc[t])
                  => result'[t] = "err_engine"]_vars
    /\ [][engineFailed =>
              (processCalls' = processCalls /\ position' = position)]_vars
    /\ [](\A t \in Threads :
              (lateCall[t] /\ result[t] = "Ok") => sawHeld[t])

C6_Witness ==
    /\ engineFailed
    /\ \E t, u \in Threads :
           /\ lateCall[t] /\ result[t] = "panicked"
           /\ lateCall[u] /\ result[u] = "err_poisoned"

(* C7: a call that finds the guard poisoned returns Err without touching   *)
(* resampler, accumulator or engine; once the guard is poisoned it stays   *)
(* poisoned and no step invokes process or changes the accumulator.        *)
C7_PoisonedIsFatal ==
    /\ [][\A t \in Threads :
              (pc[t] = "poisoned" /\ pc'[t] # pc[t])
                  => (pc'[t] = "err_poisoned" /\ UNCHANGED pipelineState)]_vars
    /\ [][poisoned => (poisoned' /\ UNCHANGED pipelineState)]_vars
    /\ [](\A t \in Threads : result[t] = "err_poisoned" => poisoned)

C7_Witness ==
    /\ poisoned
    /\ buf.some
    /\ \E t \in Threads : result[t] = "err_poisoned" /\ ownSteps[t] = 3

(* C8: once pv_cobra_delete has run, the stream does not exist, no         *)
(* callback invocation is running, and process is never entered again.     *)
C8_NoProcessAfterRelease ==
    /\ [](cobra = "released" =>
              (stream \in {"none", "dropped"} /\ CallbackQuiescent))
    /\ [](~afterRelease)
    /\ [][cobra = "released" =>
              (cobra' = "released" /\ processCalls' = processCalls)]_vars

C8_Witness ==
    cobra = "released" /\ stream = "dropped" /\ deleteCalls = 1

(* C9: when the process has exited, a handle that was created has been     *)
(* released exactly once, and nothing was released without a handle.       *)
C9_ReleasedOnEveryExit ==
    mainPc = "exited" =>
        /\ cobra # "live"
        /\ deleteCalls = (IF cobra = "released" THEN 1 ELSE 0)

(* C10 as stated: a credential with an embedded NUL makes Cobra::new fail  *)
(* with InvalidArgument, and no native handle is created.                  *)
C10_NulKeyInvalidArgument ==
    (HasNul(accessKey) /\ mainPc = "exited" /\ exitError # "resampler")
        => (exitError = "InvalidArgument" /\ initCalls = 0 /\ cobra = "none")

(* C10 amended: a credential with an embedded NUL makes Cobra::new fail    *)
(* with NullValue; pv_cobra_init is never called and no handle exists.     *)
C10_NulKeyNullValue ==
    /\ HasNul(accessKey) => (initCalls = 0 /\ cobra = "none")
    /\ (HasNul(accessKey) /\ mainPc = "exited" /\ exitError # "resampler")
           => exitError = "NullValue"

C10_Witness ==
    HasNul(accessKey) /\ mainPc = "exited" /\ exitError = "NullValue"


(* C11: a device with more than 2 channels is rejected at setup: its       *)
(* stream is never built or started and no call runs the resampler and     *)
(* mixer on its input.                                                     *)
C11_ManyChannelsRejected ==
    channels > 2 =>
        (stream \in {"none", "dropped"} /\ delivered = 0 /\ resamplerCalls = 0)

(* C12: when main has returned an error, the stream was never played, no   *)
(* buffer was delivered, neither the resampler nor process was called, and *)
(* pv_cobra_init was called at most once.                                  *)
C12_SetupFailureIsFinal ==
    exitStatus = "Err" =>
        /\ mainPc = "exited"
        /\ exitError # "none"
        /\ stream \in {"none", "dropped"}
        /\ delivered = 0 /\ resamplerCalls = 0 /\ processCalls = 0
        /\ initCalls <= 1
        /\ CallbackQuiescent

C12_Witness ==
    exitStatus = "Err" /\ exitError = "play stream" /\ cobra = "released"

(* C17: a call enters process only from its second step, so at most once;  *)
(* when process returns success the accumulator is empty, whatever the     *)
(* length of the slice that was handed over.                               *)
C17_OneFrameThenEmpty ==
    /\ [][\A t \in Threads :
              (pc'[t] = "process" /\ pc[t] # "process")
                  => (pc[t] = "locked" /\ ownSteps[t] = 1
                      /\ processCalls' = processCalls + 1)]_vars
    /\ [][processCalls' # processCalls =>
              \E t \in Threads : pc[t] = "locked" /\ pc'[t] = "process"]_vars
    /\ [][\A t \in Threads :
              (pc[t] = "process" /\ pc'[t] = "ret_ok")
                  => (buf'.some /\ Len(buf'.data) = 0)]_vars

C17_Witness ==
    \E t \in Threads :
        /\ pc[t] = "ret_ok" /\ ownSteps[t] = 3
        /\ processCalls = 2 /\ buf.some /\ Len(buf.data) = 0

(* C19: with sample_rate() >= frame_length(), every slice handed to        *)
(* process holds at least frame_length() samples.                          *)
C19_NoShortFrame ==
    sample_rate >= frame_length =>
        \A t \in Threads : pc[t] = "process" => Len(frame[t]) >= frame_length

C19_Witness ==
    \E t \in Threads :
        pc[t] = "process" /\ holder = t /\ Len(frame[t]) = sample_rate


(* C14: the reported position is always the percentage of the score of the *)
(* most recent successful process call (0 before the first), and only a    *)
(* step in which process returns success changes it.                       *)
C14_LatestScoreReported ==
    /\ [](position = (confidence * 100) \div Unit)
    /\ [][(position' # position \/ confidence' # confidence) =>
              \E t \in Threads : pc[t] = "process" /\ pc'[t] = "ret_ok"]_vars

C14_Witness ==
    /\ processCalls = 2
    /\ confidence = 1 /\ position = 100 \div Unit
    /\ \E t \in Threads : pc[t] = "ret_ok" /\ ownSteps[t] = 3


IsPrefix(a, b) == Len(a) <= Len(b) /\ SubSeq(b, 1, Len(a)) = a

C13_FrameEventuallyScored ==
    \A k \in 0..MaxLiveDeliver :
        (/\ stream = "playing"
         /\ processCalls = k
         /\ Len(buf.data) + (MaxLiveDeliver - delivered) >= sample_rate)
            ~> (processCalls > k)

C13_Witness ==
    /\ stream = "playing"
    /\ processCalls = 1
    /\ buf.some /\ Len(buf.data) = 0
    /\ MaxLiveDeliver - delivered >= sample_rate


(* r is num/den rounded to the nearest integer, ties away from zero *)
IsRoundOf(r, num, den) ==
    LET d == 2 * den * r - 2 * num
    IN /\ Abs(d) <= den
       /\ Abs(d) = den => Abs(r) * den > Abs(num)

(* sum of the k-th channel group of a block of 1 or 2 channels *)
GroupSum(ch, block, k) ==
    IF ch = 1 THEN block[k] ELSE block[2 * k - 1] + block[2 * k]

====
